---- MODULE Spec2Model ----
(***************************************************************************)
(* Model of the account store of src/repositories/memory.py                *)
(* (InMemoryAccountRepository) together with the pydantic schemas of       *)
(* src/models/account.py that decide which values reach the store and      *)
(* which stored values can be turned into a response view.                 *)
(*                                                                         *)
(* Encoding of Python values:                                              *)
(*   Optional[T]   None is <<>>, a value v is <<v>>                        *)
(*   str (name)    a sequence of tokens; " " is a whitespace character,    *)
(*                 "admin" stands for the reserved prefix, "<" for a       *)
(*                 forbidden character, other tokens are ordinary text     *)
(*   datetime      a natural number, the reading of the wall clock         *)
(*   dict          a sequence of [key, data] entries in insertion order    *)
(***************************************************************************)
EXTENDS Integers, Sequences, FiniteSets, TLC

\* ------------------------------------------------------------------ bounds
\* Largest number of create calls explored (cap on the id counter).
MaxId == 2
\* Largest wall-clock reading explored.
MaxClock == 1
\* Number of tasks that can have a call scheduled on the event loop at once.
NumTasks == 2
\* Largest number of Python objects allocated in one run.
MaxObjects == 6
\* Largest number of store instances the factory builds in one run.
MaxInstances == 3
\* Largest number of clear_repository_cache calls in one run.
MaxResets == 1

\* ------------------------------------------------------------ Python values
None == <<>>
Some(v) == <<v>>

\* Python truthiness of a stored "active" value: True is truthy, False and
\* None are falsy.
Truthy(v) == v = Some(TRUE)

\* dict union  a | b : keys of both, values of b win.
DictUnion_left(a, b) ==
  [f \in (DOMAIN a) \cup (DOMAIN b) |-> IF f \in DOMAIN a THEN a[f] ELSE b[f]]
DictUnion(a, b) ==
  [f \in (DOMAIN a) \cup (DOMAIN b) |-> IF f \in DOMAIN b THEN b[f] ELSE a[f]]

\* ------------------------------------------------------------------ schemas
RECURSIVE LStrip(_)
LStrip(s) == IF s # <<>> /\ Head(s) = " " THEN LStrip(Tail(s)) ELSE s

RECURSIVE RStrip(_)
RStrip(s) ==
  IF s # <<>> /\ s[Len(s)] = " " THEN RStrip(SubSeq(s, 1, Len(s) - 1)) ELSE s

\* str.strip(), and pydantic's str_strip_whitespace
Strip(s) == RStrip(LStrip(s))

InvalidChars == {"<", ">", "&", "\"", "'"}
ReservedKeywords == {"admin", "root", "system"}

\* Account.validate_name: TRUE when the validator accepts the name.
validate_name(v) ==
  LET cleaned == Strip(v)
  IN  /\ cleaned # <<>>
      /\ \A i \in 1..Len(cleaned) : cleaned[i] \notin InvalidChars
      /\ cleaned[1] \notin ReservedKeywords

\* Inputs that pass AccountCreate / Account: the name is already stripped by
\* str_strip_whitespace and accepted by validate_name, the balance is a
\* number >= 0, active is a boolean.
AccountNames == {<<"A">>}
Descriptions == {None, Some("d")}
Balances == {0, 100}

AccountInputs ==
  [name : {Some(n) : n \in AccountNames},
   description : Descriptions,
   balance : {Some(b) : b \in Balances},
   active : {Some(TRUE), Some(FALSE)}]

\* Account.model_dump(exclude={"display_balance"})
model_dump_no_active(account) ==
  [f \in {"name", "description", "balance"} |-> account[f]]
model_dump(account) ==
  [f \in {"name", "description", "balance", "active"} |-> account[f]]

\* An argument of the AccountUpdate constructor: not given (<<>>), or given
\* (<<x>>) with an Optional value x.
Unset == <<>>
SetTo(x) == <<x>>

\* AccountUpdate(...): every field defaults to None; "set" is
\* model_fields_set, the fields the caller gave explicitly.
AccountUpdate(n, d, b, a) ==
  LET c == [name |-> n, description |-> d, balance |-> b, active |-> a]
      val(f) == IF c[f] = Unset THEN None ELSE c[f][1]
  IN  [name |-> val("name"), description |-> val("description"),
       balance |-> val("balance"), active |-> val("active"),
       set |-> {f \in DOMAIN c : c[f] # Unset}]

\* AccountUpdate.model_dump(exclude_unset=True, exclude={"display_balance"})
model_dump_with_unset(account) ==
  [f \in {"name", "description", "balance", "active"} |-> account[f]]
model_dump_exclude_none(account) ==
  [f \in {g \in account.set : account[g] # None} |-> account[f]]
model_dump_exclude_unset(account) == [f \in account.set |-> account[f]]

\* Inputs that pass AccountUpdate.  The schema takes any name of 1..100
\* characters (it neither strips nor runs validate_name), any balance >= 0,
\* and None for every field.
AccountUpdateNames == {<<"B">>, <<"admin">>}
AccountUpdateBalances == {0}

AccountUpdateInputs ==
  { AccountUpdate(n, d, b, a) :
      n \in {Unset, SetTo(None)} \cup {SetTo(Some(x)) : x \in AccountUpdateNames},
      d \in {Unset} \cup {SetTo(x) : x \in Descriptions},
      b \in {Unset, SetTo(None)} \cup {SetTo(Some(x)) : x \in AccountUpdateBalances},
      a \in {Unset, SetTo(None), SetTo(Some(TRUE)), SetTo(Some(FALSE))} }

\* The inputs explored against a store of several records: no description,
\* one balance, either active flag.
SomeAccountInputs ==
  {a \in AccountInputs : a.description = None /\ a.balance = Some(100)}

\* The patches explored against a store of several records: a
\* whitespace-only name, and either active flag.
SomeAccountUpdateInputs ==
  { AccountUpdate(SetTo(Some(<<" ">>)), Unset, Unset, Unset),
    AccountUpdate(Unset, Unset, Unset, SetTo(Some(TRUE))),
    AccountUpdate(Unset, Unset, Unset, SetTo(Some(FALSE))) }

\* AccountResponse(**data) validates: TRUE when construction succeeds.
ResponseValid(data) ==
  /\ data.name # None
  /\ Len(Strip(data.name[1])) >= 1
  /\ validate_name(Strip(data.name[1]))
  /\ data.balance # None
  /\ data.balance[1] >= 0
  /\ data.active # None

\* The fields of the response view built from stored data.
ResponseView(data) == [data EXCEPT !.name = Some(Strip(data.name[1]))]

\* Outcomes of a call.
RetNone == [kind |-> "none"]
RetRaise == [kind |-> "raise"]
RetView(v) == [kind |-> "view", val |-> v]
RetBool(b) == [kind |-> "bool", val |-> b]
RetList(l) == [kind |-> "list", val |-> l]

\* AccountResponse(**data): a view, or ValidationError.
AccountResponse(data) ==
  IF ResponseValid(data) THEN RetView(ResponseView(data)) ELSE RetRaise

\* [AccountResponse(**acc) for acc in accs]: raises when one of them raises.
Responses(accs) ==
  IF \A i \in DOMAIN accs : ResponseValid(accs[i])
  THEN RetList([i \in DOMAIN accs |-> ResponseView(accs[i])])
  ELSE RetRaise

\* -------------------------------------------------------------------- state
VARIABLES
  accounts,    \* self._accounts : dict, as entries in insertion order
  next_id,     \* self._next_id
  clock,       \* last reading of datetime.now(timezone.utc)
  last,        \* the call that completed last: op, arguments, outcome
  create_log,  \* history: ids returned by create, in call order
  pending,     \* calls scheduled on the event loop and not yet run
  heap,        \* the Python objects behind the values: which object the
               \* store and the callers hold, and what each object contains
  factory      \* src/dependencies/repository.py and the settings of
               \* src/main.py: the configured backend, the cached instance,
               \* the instances built, the get_repository calls of each thread

vars == <<accounts, next_id, clock, last, create_log, pending, heap, factory>>

\* Ids a caller may pass; MaxId + 1 is never assigned.
Ids == 1..(MaxId + 1)

\* The requests in progress whose get_repository dependency is being
\* resolved; FastAPI runs a plain "def" dependency in a worker thread.
Callers == 1..NumTasks

\* dict helpers
Keys(d) == {d[i].key : i \in DOMAIN d}
HasKey(d, k) == \E i \in DOMAIN d : d[i].key = k
\* d[k] for a key that is present
Lookup(d, k) == d[CHOOSE i \in DOMAIN d : d[i].key = k].data
\* d.get(k)
Get(d, k) == IF HasKey(d, k) THEN Some(Lookup(d, k)) ELSE None
\* d[k] = v : replaces in place, or appends a new key
DictSet_only(d, k, v) == <<[key |-> k, data |-> v]>>
DictSet(d, k, v) ==
  IF HasKey(d, k)
  THEN [i \in DOMAIN d |-> IF d[i].key = k THEN [key |-> k, data |-> v] ELSE d[i]]
  ELSE Append(d, [key |-> k, data |-> v])
\* list(d.values())
Values(d) == [i \in DOMAIN d |-> d[i].data]

\* datetime.now(timezone.utc): the wall clock does not run backwards between
\* two reads but has finite resolution, so two reads can return the same
\* value.
Now_any == 0..MaxClock
Now == {t \in {clock, clock + 1} : t <= MaxClock}

Init ==
  /\ accounts = <<>>
  /\ next_id = 1
  /\ clock = 0
  /\ last = [op |-> "init", id |-> 0, arg |-> [none |-> TRUE], ret |-> RetNone]
  /\ create_log = <<>>
  /\ pending = {}
  /\ heap = [objs |-> <<>>, dicts |-> <<>>, refs |-> {}, by |-> "store"]
  /\ factory = [settings |-> None, cache |-> None, instances |-> <<>>,
                call |-> [t \in Callers |-> "idle"],
                held |-> [t \in Callers |-> None],
                op |-> "init", resolved |-> None, resets |-> 0]

\* --------------------------------------------------------------- operations
\* _get_next_id: the value of the counter after the call.
get_next_id_same(n) == n
get_next_id(n) == n + 1

\* (existing := self._accounts.get(account_id)) and existing["active"]
Visible_any(d, account_id) == HasKey(d, account_id)
Visible(d, account_id) ==
  LET existing == Get(d, account_id)
  IN  existing # None /\ Truthy(existing[1].active)

create_default_active(account) ==
  /\ next_id <= MaxId
  /\ \E now \in Now :
       LET account_id == next_id
           account_data == [id |-> account_id,
                            name |-> account.name,
                            description |-> account.description,
                            balance |-> account.balance,
                            active |-> Some(TRUE),
                            created_at |-> now,
                            updated_at |-> now]
       IN  /\ next_id' = get_next_id(next_id)
           /\ clock' = now
           /\ accounts' = DictSet(accounts, account_id, account_data)
           /\ last' = [op |-> "create", id |-> account_id, arg |-> account,
                       ret |-> AccountResponse(account_data)]
           /\ create_log' = Append(create_log, account_id)

create_suspended(account) ==
  /\ next_id <= MaxId
  /\ next_id' = get_next_id(next_id)
  /\ last' = [op |-> "create", id |-> next_id, arg |-> account, ret |-> RetNone]
  /\ UNCHANGED <<accounts, clock, create_log>>

create(account) ==
  /\ next_id <= MaxId
  /\ \E now \in Now :
       LET account_id == next_id
           account_data == [id |-> account_id,
                            name |-> account.name,
                            description |-> account.description,
                            balance |-> account.balance,
                            active |-> account.active,
                            created_at |-> now,
                            updated_at |-> now]
       IN  /\ next_id' = get_next_id(next_id)
           /\ clock' = now
           /\ accounts' = DictSet(accounts, account_id, account_data)
           /\ last' = [op |-> "create", id |-> account_id, arg |-> account,
                       ret |-> AccountResponse(account_data)]
           /\ create_log' = Append(create_log, account_id)

\* what get_by_id returns in store d
get_by_id_result_stored(d, account_id) ==
  IF HasKey(d, account_id)
  THEN AccountResponse(Lookup(d, account_id))
  ELSE RetNone

get_by_id_result(d, account_id) ==
  IF Visible(d, account_id)
  THEN AccountResponse(Lookup(d, account_id))
  ELSE RetNone

get_by_id_touch(account_id) ==
  IF HasKey(accounts, account_id)
  THEN \E now \in Now :
         /\ accounts' = DictSet(accounts, account_id,
                                DictUnion(Lookup(accounts, account_id),
                                          [updated_at |-> now]))
         /\ clock' = now
         /\ last' = [op |-> "get_by_id", id |-> account_id,
                     arg |-> [none |-> TRUE],
                     ret |-> get_by_id_result(accounts, account_id)]
         /\ UNCHANGED <<next_id, create_log>>
  ELSE /\ last' = [op |-> "get_by_id", id |-> account_id,
                   arg |-> [none |-> TRUE], ret |-> RetNone]
       /\ UNCHANGED <<accounts, next_id, clock, create_log>>

get_by_id(account_id) ==
  /\ last' = [op |-> "get_by_id", id |-> account_id, arg |-> [none |-> TRUE],
              ret |-> get_by_id_result(accounts, account_id)]
  /\ UNCHANGED <<accounts, next_id, clock, create_log>>

\* what get_all returns in store d
get_all_result(d, active_only) ==
  LET all == Values(d)
      selected == IF active_only
                  THEN SelectSeq(all, LAMBDA acc : Truthy(acc.active))
                  ELSE all
  IN  Responses(selected)

get_all(active_only) ==
  /\ last' = [op |-> "get_all", id |-> 0,
              arg |-> [active_only |-> active_only],
              ret |-> get_all_result(accounts, active_only)]
  /\ UNCHANGED <<accounts, next_id, clock, create_log>>

get_all_including_deleted ==
  /\ last' = [op |-> "get_all_including_deleted", id |-> 0,
              arg |-> [none |-> TRUE], ret |-> Responses(Values(accounts))]
  /\ UNCHANGED <<accounts, next_id, clock, create_log>>

update_torn(account_id, account) ==
  IF ~Visible(accounts, account_id)
  THEN /\ last' = [op |-> "update", id |-> account_id, arg |-> account,
                   ret |-> RetNone]
       /\ UNCHANGED <<accounts, next_id, clock, create_log>>
  ELSE \E now \in Now :
         LET existing == Lookup(accounts, account_id)
             updated_data ==
               DictUnion(DictUnion(existing,
                                   [name |-> account.name,
                                    description |-> account.description]),
                         [id |-> account_id, updated_at |-> now])
         IN  /\ accounts' = DictSet(accounts, account_id, updated_data)
             /\ clock' = now
             /\ last' = [op |-> "update", id |-> account_id, arg |-> account,
                         ret |-> AccountResponse(updated_data)]
             /\ UNCHANGED <<next_id, create_log>>

update(account_id, account) ==
  IF ~Visible(accounts, account_id)
  THEN /\ last' = [op |-> "update", id |-> account_id, arg |-> account,
                   ret |-> RetNone]
       /\ UNCHANGED <<accounts, next_id, clock, create_log>>
  ELSE \E now \in Now :
         LET existing == Lookup(accounts, account_id)
             updated_data ==
               DictUnion(DictUnion(existing, model_dump(account)),
                         [id |-> account_id, updated_at |-> now])
         IN  /\ accounts' = DictSet(accounts, account_id, updated_data)
             /\ clock' = now
             /\ last' = [op |-> "update", id |-> account_id, arg |-> account,
                         ret |-> AccountResponse(updated_data)]
             /\ UNCHANGED <<next_id, create_log>>

partial_update(account_id, account) ==
  IF ~Visible(accounts, account_id)
  THEN /\ last' = [op |-> "partial_update", id |-> account_id,
                   arg |-> account, ret |-> RetNone]
       /\ UNCHANGED <<accounts, next_id, clock, create_log>>
  ELSE \E now \in Now :
         LET existing == Lookup(accounts, account_id)
             updated_data ==
               DictUnion(DictUnion(existing, model_dump_exclude_unset(account)),
                         [updated_at |-> now])
         IN  /\ accounts' = DictSet(accounts, account_id, updated_data)
             /\ clock' = now
             /\ last' = [op |-> "partial_update", id |-> account_id,
                         arg |-> account,
                         ret |-> AccountResponse(updated_data)]
             /\ UNCHANGED <<next_id, create_log>>

delete_pop(account_id) ==
  IF Get(accounts, account_id) # None
  THEN /\ accounts' = SelectSeq(accounts, LAMBDA e : e.key # account_id)
       /\ last' = [op |-> "delete", id |-> account_id,
                   arg |-> [none |-> TRUE], ret |-> RetBool(TRUE)]
       /\ UNCHANGED <<next_id, clock, create_log>>
  ELSE /\ last' = [op |-> "delete", id |-> account_id,
                   arg |-> [none |-> TRUE], ret |-> RetBool(FALSE)]
       /\ UNCHANGED <<accounts, next_id, clock, create_log>>

delete_restamp(account_id) ==
  IF Get(accounts, account_id) # None
  THEN \E now \in Now :
         LET existing == Lookup(accounts, account_id)
         IN  /\ accounts' = DictSet(accounts, account_id,
                   DictUnion(existing,
                             [active |-> Some(FALSE), created_at |-> now,
                              updated_at |-> now]))
             /\ clock' = now
             /\ last' = [op |-> "delete", id |-> account_id,
                         arg |-> [none |-> TRUE], ret |-> RetBool(TRUE)]
             /\ UNCHANGED <<next_id, create_log>>
  ELSE /\ last' = [op |-> "delete", id |-> account_id,
                   arg |-> [none |-> TRUE], ret |-> RetBool(FALSE)]
       /\ UNCHANGED <<accounts, next_id, clock, create_log>>

delete_true(account_id) ==
  IF Get(accounts, account_id) # None
  THEN \E now \in Now :
         LET existing == Lookup(accounts, account_id)
         IN  /\ accounts' = DictSet(accounts, account_id,
                   DictUnion(existing,
                             [active |-> Some(FALSE), updated_at |-> now]))
             /\ clock' = now
             /\ last' = [op |-> "delete", id |-> account_id,
                         arg |-> [none |-> TRUE], ret |-> RetBool(TRUE)]
             /\ UNCHANGED <<next_id, create_log>>
  ELSE /\ last' = [op |-> "delete", id |-> account_id,
                   arg |-> [none |-> TRUE], ret |-> RetBool(TRUE)]
       /\ UNCHANGED <<accounts, next_id, clock, create_log>>

delete_once(account_id) ==
  IF Visible(accounts, account_id)
  THEN \E now \in Now :
         LET existing == Lookup(accounts, account_id)
         IN  /\ accounts' = DictSet(accounts, account_id,
                   DictUnion(existing,
                             [active |-> Some(FALSE), updated_at |-> now]))
             /\ clock' = now
             /\ last' = [op |-> "delete", id |-> account_id,
                         arg |-> [none |-> TRUE], ret |-> RetBool(TRUE)]
             /\ UNCHANGED <<next_id, create_log>>
  ELSE /\ last' = [op |-> "delete", id |-> account_id,
                   arg |-> [none |-> TRUE], ret |-> RetBool(FALSE)]
       /\ UNCHANGED <<accounts, next_id, clock, create_log>>

delete(account_id) ==
  IF Get(accounts, account_id) # None
  THEN \E now \in Now :
         LET existing == Lookup(accounts, account_id)
         IN  /\ accounts' = DictSet(accounts, account_id,
                   DictUnion(existing,
                             [active |-> Some(FALSE), updated_at |-> now]))
             /\ clock' = now
             /\ last' = [op |-> "delete", id |-> account_id,
                         arg |-> [none |-> TRUE], ret |-> RetBool(TRUE)]
             /\ UNCHANGED <<next_id, create_log>>
  ELSE /\ last' = [op |-> "delete", id |-> account_id,
                   arg |-> [none |-> TRUE], ret |-> RetBool(FALSE)]
       /\ UNCHANGED <<accounts, next_id, clock, create_log>>

\* what exists returns in store d
exists_result_stored(d, account_id) == RetBool(HasKey(d, account_id))
exists_result(d, account_id) == RetBool(Visible(d, account_id))

exists(account_id) ==
  /\ last' = [op |-> "exists", id |-> account_id, arg |-> [none |-> TRUE],
              ret |-> exists_result(accounts, account_id)]
  /\ UNCHANGED <<accounts, next_id, clock, create_log>>

\* ------------------------------------ sequential calls, store of many records
Create == \E a \in SomeAccountInputs : create(a) /\ UNCHANGED <<pending, heap, factory>>
GetById == \E i \in Ids : get_by_id(i) /\ UNCHANGED <<pending, heap, factory>>
GetAll == \E b \in BOOLEAN : get_all(b) /\ UNCHANGED <<pending, heap, factory>>
GetAllIncludingDeleted == get_all_including_deleted /\ UNCHANGED <<pending, heap, factory>>
Update ==
  \E i \in Ids, a \in SomeAccountInputs : update(i, a) /\ UNCHANGED <<pending, heap, factory>>
PartialUpdate ==
  \E i \in Ids, p \in SomeAccountUpdateInputs :
    partial_update(i, p) /\ UNCHANGED <<pending, heap, factory>>
Delete == \E i \in Ids : delete(i) /\ UNCHANGED <<pending, heap, factory>>
Exists == \E i \in Ids : exists(i) /\ UNCHANGED <<pending, heap, factory>>

Next ==
  \/ Create
  \/ GetById
  \/ GetAll
  \/ GetAllIncludingDeleted
  \/ Update
  \/ PartialUpdate
  \/ Delete
  \/ Exists

Spec == Init /\ [][Next]_vars

\* ------------------------- sequential calls, one record, every schema input
\* The id a caller passes here: the id of the first record.
RecordIds == {1}

RecordCreate ==
  /\ accounts = <<>>
  /\ \E a \in AccountInputs : create(a)
  /\ UNCHANGED <<pending, heap, factory>>
RecordGetById == \E i \in RecordIds : get_by_id(i) /\ UNCHANGED <<pending, heap, factory>>
RecordGetAll == \E b \in BOOLEAN : get_all(b) /\ UNCHANGED <<pending, heap, factory>>
RecordUpdate ==
  \E i \in RecordIds, a \in AccountInputs : update(i, a) /\ UNCHANGED <<pending, heap, factory>>
RecordPartialUpdate ==
  \E i \in RecordIds, p \in AccountUpdateInputs :
    partial_update(i, p) /\ UNCHANGED <<pending, heap, factory>>
RecordDelete == \E i \in RecordIds : delete(i) /\ UNCHANGED <<pending, heap, factory>>
RecordExists == \E i \in RecordIds : exists(i) /\ UNCHANGED <<pending, heap, factory>>

NextRecord ==
  \/ RecordCreate
  \/ RecordGetById
  \/ RecordGetAll
  \/ RecordUpdate
  \/ RecordPartialUpdate
  \/ RecordDelete
  \/ RecordExists

SpecRecord == Init /\ [][NextRecord]_vars

\* ---------------------------------------- concurrent calls on the event loop
\* Every method of the store is an "async def" without an await in its body:
\* a call scheduled on the event loop waits in pending and then runs from its
\* first statement to its return before any other call runs.
Tasks == 1..NumTasks
Idle(t) == \A c \in pending : c.task # t

\* a request handler is scheduled: await repository.create(account)
SubmitCreate ==
  \E t \in Tasks, a \in SomeAccountInputs :
    /\ Idle(t)
    /\ pending' = pending \cup
         {[task |-> t, op |-> "create", id |-> 0, arg |-> a, seen |-> next_id]}
    /\ UNCHANGED <<accounts, next_id, clock, last, create_log, heap, factory>>

\* a request handler is scheduled: await repository.delete(account_id)
SubmitDelete ==
  \E t \in Tasks :
    /\ Idle(t)
    /\ pending' = pending \cup
         {[task |-> t, op |-> "delete", id |-> 1, arg |-> [none |-> TRUE],
           seen |-> 0]}
    /\ UNCHANGED <<accounts, next_id, clock, last, create_log, heap, factory>>

RunCreate ==
  \E c \in pending :
    /\ c.op = "create"
    /\ create(c.arg)
    /\ pending' = pending \ {c}
    /\ UNCHANGED <<heap, factory>>

RunDelete ==
  \E c \in pending :
    /\ c.op = "delete"
    /\ delete(c.id)
    /\ pending' = pending \ {c}
    /\ UNCHANGED <<heap, factory>>

NextConc == SubmitCreate \/ SubmitDelete \/ RunCreate \/ RunDelete

SpecConc == Init /\ [][NextConc]_vars

\* ------------------------------ concurrent mutations of one record
\* Request handlers of several tasks call update, partial_update and delete
\* on the first record; the event loop runs the scheduled calls one at a
\* time, in any order.
MutAccountInputs ==
  {a \in AccountInputs :
     a.description = Some("d") /\ a.balance = Some(0) /\ a.active = Some(TRUE)}

MutAccountUpdateInputs ==
  { AccountUpdate(SetTo(Some(<<"B">>)), Unset, Unset, Unset),
    AccountUpdate(Unset, Unset, SetTo(Some(0)), Unset) }

\* the first record is created before the concurrent calls are served
MutCreate ==
  /\ accounts = <<>>
  /\ \E a \in SomeAccountInputs : create(a)
  /\ UNCHANGED <<pending, heap, factory>>

\* a request handler is scheduled: await repository.update(account_id, account)
SubmitUpdate ==
  \E t \in Tasks, a \in MutAccountInputs :
    /\ Idle(t)
    /\ pending' = pending \cup
         {[task |-> t, op |-> "update", id |-> 1, arg |-> a, seen |-> 0]}
    /\ UNCHANGED <<accounts, next_id, clock, last, create_log, heap, factory>>

\* a request handler is scheduled:
\* await repository.partial_update(account_id, account)
SubmitPartialUpdate ==
  \E t \in Tasks, p \in MutAccountUpdateInputs :
    /\ Idle(t)
    /\ pending' = pending \cup
         {[task |-> t, op |-> "partial_update", id |-> 1, arg |-> p,
           seen |-> 0]}
    /\ UNCHANGED <<accounts, next_id, clock, last, create_log, heap, factory>>

RunUpdate ==
  \E c \in pending :
    /\ c.op = "update"
    /\ update(c.id, c.arg)
    /\ pending' = pending \ {c}
    /\ UNCHANGED <<heap, factory>>

RunPartialUpdate ==
  \E c \in pending :
    /\ c.op = "partial_update"
    /\ partial_update(c.id, c.arg)
    /\ pending' = pending \ {c}
    /\ UNCHANGED <<heap, factory>>

NextMut ==
  \/ MutCreate
  \/ SubmitUpdate
  \/ SubmitPartialUpdate
  \/ SubmitDelete
  \/ RunUpdate
  \/ RunPartialUpdate
  \/ RunDelete

SpecMut == Init /\ [][NextMut]_vars

\* --------------------------------------- every operation on the event loop
\* Request handlers of several tasks await any of the store's operations.
\* Each operation is an "async def" whose body holds no await, so a call that
\* the event loop starts runs to its return before the loop starts another;
\* a scheduled call waits for nothing but its turn.
LoopAccountInputs ==
  {a \in SomeAccountInputs : a.name = Some(<<"A">>) /\ a.active = Some(TRUE)}

LoopAccountUpdateInputs ==
  { AccountUpdate(SetTo(Some(<<"B">>)), Unset, Unset, Unset) }

\* how many of the scheduled calls are creates
PendingCreates == Cardinality({c \in pending : c.op = "create"})

\* The calls the handlers make, one of each operation.
LoopCalls ==
  <<[op |-> "create", id |-> 0, arg |-> CHOOSE a \in LoopAccountInputs : TRUE],
    [op |-> "partial_update", id |-> 1,
     arg |-> CHOOSE u \in LoopAccountUpdateInputs : TRUE],
    [op |-> "get_all", id |-> 0, arg |-> [active_only |-> TRUE]],
    [op |-> "update", id |-> 1, arg |-> CHOOSE a \in LoopAccountInputs : TRUE],
    [op |-> "delete", id |-> 1, arg |-> [none |-> TRUE]],
    [op |-> "get_by_id", id |-> 1, arg |-> [none |-> TRUE]],
    [op |-> "exists", id |-> 1, arg |-> [none |-> TRUE]],
    [op |-> "get_all_including_deleted", id |-> 0, arg |-> [none |-> TRUE]]>>

\* a request handler is scheduled: await repository.<operation>(...).  The
\* operations are dealt out to the tasks in turn, so that calls of different
\* operations are in flight together.
LoopSubmit ==
  \E t \in Tasks, k \in DOMAIN LoopCalls :
    /\ Idle(t)
    /\ (k % NumTasks) + 1 = t
    /\ (LoopCalls[k].op = "create") => (next_id + PendingCreates <= MaxId)
    /\ pending' = pending \cup
         {[task |-> t, op |-> LoopCalls[k].op, id |-> LoopCalls[k].id,
           arg |-> LoopCalls[k].arg, seen |-> 0]}
    /\ UNCHANGED <<accounts, next_id, clock, last, create_log, heap, factory>>

\* the event loop runs the call task t has scheduled
LoopRun(t) ==
  \E c \in pending :
    /\ c.task = t
    /\ \/ (c.op = "create" /\ create(c.arg))
       \/ (c.op = "get_by_id" /\ get_by_id(c.id))
       \/ (c.op = "get_all" /\ get_all(c.arg.active_only))
       \/ (c.op = "get_all_including_deleted" /\ get_all_including_deleted)
       \/ (c.op = "update" /\ update(c.id, c.arg))
       \/ (c.op = "partial_update" /\ partial_update(c.id, c.arg))
       \/ (c.op = "delete" /\ delete(c.id))
       \/ (c.op = "exists" /\ exists(c.id))
    /\ pending' = pending \ {c}
    /\ UNCHANGED <<heap, factory>>

NextLoop ==
  \/ LoopSubmit
  \/ \E t \in Tasks : LoopRun(t)

SpecLoop == Init /\ [][NextLoop]_vars

\* ------------------------------------------ the objects behind the values
\* str, float, bool, datetime and None are immutable, so only three kinds of
\* object can be shared and changed: the pydantic model a caller passes in,
\* the dict stored under an id, and the AccountResponse handed back.
\* heap.objs[a] is the content of the object at address a, heap.dicts[i] the
\* address of the dict stored at accounts[i], heap.refs the addresses callers
\* hold, heap.by who made the last step.

\* a new object is built: a model instance, a dict display {...}, or the
\* result of a | b
Alloc(h, content) == [h EXCEPT !.objs = Append(@, content)]

\* AccountResponse(**account_data) on the dict at address d: the object
\* returned and the heap after the call
NewAccountResponse_alias(h, d) == [heap |-> h, addr |-> d]
NewAccountResponse(h, d) ==
  LET h1 == Alloc(h, ResponseView(h.objs[d]))
  IN  [heap |-> h1, addr |-> Len(h1.objs)]

\* position of a key in the dict
IndexOf(d, k) == CHOOSE i \in DOMAIN d : d[i].key = k

\* the models callers pass to create and to partial_update here
HeapAccountInputs == {a \in SomeAccountInputs : a.active = Some(TRUE)}
HeapAccountUpdateInputs ==
  {AccountUpdate(SetTo(Some(<<"B">>)), Unset, Unset, Unset)}

\* the caller keeps the model it passed in and the response it got back
Handed(h, addrs) ==
  [h EXCEPT !.refs = @ \cup addrs, !.by = "store"]

HeapCreate ==
  /\ accounts = <<>>
  /\ Len(heap.objs) + 3 <= MaxObjects
  /\ \E a \in HeapAccountInputs :
       LET h1 == Alloc(heap, a)
           i == Len(h1.objs)
       IN  /\ create(h1.objs[i])
           /\ LET h2 == Alloc(h1, [id |-> next_id,
                                   name |-> h1.objs[i].name,
                                   description |-> h1.objs[i].description,
                                   balance |-> h1.objs[i].balance,
                                   active |-> h1.objs[i].active,
                                   created_at |-> clock',
                                   updated_at |-> clock'])
                  d == Len(h2.objs)
                  r == NewAccountResponse(h2, d)
              IN  heap' = Handed([r.heap EXCEPT !.dicts = Append(@, d)],
                                 {i, r.addr})
  /\ UNCHANGED <<pending, factory>>

HeapGetById ==
  /\ Len(heap.objs) + 1 <= MaxObjects
  /\ \E k \in RecordIds :
       /\ get_by_id(k)
       /\ IF Visible(accounts, k)
          THEN LET r == NewAccountResponse(heap, heap.dicts[IndexOf(accounts, k)])
               IN  heap' = Handed(r.heap, {r.addr})
          ELSE heap' = Handed(heap, {})
  /\ UNCHANGED <<pending, factory>>

\* [AccountResponse(**acc) for acc in accounts]: one new object per dict of
\* ds, in order; the heap after it and the addresses of the new objects
RECURSIVE NewResponses(_, _)
NewResponses(h, ds) ==
  IF ds = <<>>
  THEN [heap |-> h, addrs |-> {}]
  ELSE LET r == NewAccountResponse(h, Head(ds))
           rest == NewResponses(r.heap, Tail(ds))
       IN  [heap |-> rest.heap, addrs |-> {r.addr} \cup rest.addrs]

HeapGetAll ==
  /\ Len(heap.objs) + Len(accounts) <= MaxObjects
  /\ \E b \in BOOLEAN :
       /\ get_all(b)
       /\ LET selected ==
                IF b
                THEN SelectSeq(heap.dicts,
                               LAMBDA d : Truthy(heap.objs[d].active))
                ELSE heap.dicts
              r == NewResponses(heap, selected)
          IN  IF get_all_result(accounts, b).kind = "list"
              THEN heap' = Handed(r.heap, r.addrs)
              ELSE heap' = Handed(heap, {})
  /\ UNCHANGED <<pending, factory>>

HeapUpdate ==
  /\ Len(heap.objs) + 3 <= MaxObjects
  /\ \E k \in RecordIds, a \in MutAccountInputs :
       LET h1 == Alloc(heap, a)
           i == Len(h1.objs)
       IN  /\ update(k, h1.objs[i])
           /\ IF Visible(accounts, k)
              THEN LET p == IndexOf(accounts, k)
                       h2 == Alloc(h1,
                               DictUnion(DictUnion(h1.objs[h1.dicts[p]],
                                                   model_dump(h1.objs[i])),
                                         [id |-> k, updated_at |-> clock']))
                       d == Len(h2.objs)
                       r == NewAccountResponse(h2, d)
                   IN  heap' = Handed([r.heap EXCEPT !.dicts[p] = d],
                                      {i, r.addr})
              ELSE heap' = Handed(h1, {i})
  /\ UNCHANGED <<pending, factory>>

HeapPartialUpdate ==
  /\ Len(heap.objs) + 3 <= MaxObjects
  /\ \E k \in RecordIds, a \in HeapAccountUpdateInputs :
       LET h1 == Alloc(heap, a)
           i == Len(h1.objs)
       IN  /\ partial_update(k, h1.objs[i])
           /\ IF Visible(accounts, k)
              THEN LET p == IndexOf(accounts, k)
                       h2 == Alloc(h1,
                               DictUnion(DictUnion(h1.objs[h1.dicts[p]],
                                           model_dump_exclude_unset(h1.objs[i])),
                                         [updated_at |-> clock']))
                       d == Len(h2.objs)
                       r == NewAccountResponse(h2, d)
                   IN  heap' = Handed([r.heap EXCEPT !.dicts[p] = d],
                                      {i, r.addr})
              ELSE heap' = Handed(h1, {i})
  /\ UNCHANGED <<pending, factory>>

\* existing.update({...}) writes into the stored dict itself
HeapDelete ==
  /\ \E k \in RecordIds :
       /\ delete(k)
       /\ IF HasKey(accounts, k)
          THEN LET d == heap.dicts[IndexOf(accounts, k)]
               IN  heap' = Handed([heap EXCEPT !.objs[d] =
                                     DictUnion(@, [active |-> Some(FALSE),
                                                   updated_at |-> clock'])],
                                  {})
          ELSE heap' = Handed(heap, {})
  /\ UNCHANGED <<pending, factory>>

\* a caller assigns to a field of an object it holds (the models allow
\* assignment; validate_assignment lets a valid value through)
CallerAssigns ==
  /\ \E a \in heap.refs :
       /\ heap.objs[a].balance # Some(50)
       /\ heap' = [heap EXCEPT !.objs[a].balance = Some(50), !.by = "caller"]
  /\ UNCHANGED <<accounts, next_id, clock, last, create_log, pending, factory>>

NextHeap ==
  \/ HeapCreate
  \/ HeapGetById
  \/ HeapGetAll
  \/ HeapUpdate
  \/ HeapPartialUpdate
  \/ HeapDelete
  \/ CallerAssigns

SpecHeap == Init /\ [][NextHeap]_vars

\* ------------------------------------------------- backend selection
\* A str is a sequence of characters here, so that str.lower() is computed.
UpperCase ==
  <<"A", "B", "C", "D", "E", "F", "G", "H", "I", "J", "K", "L", "M",
    "N", "O", "P", "Q", "R", "S", "T", "U", "V", "W", "X", "Y", "Z">>
LowerCase ==
  <<"a", "b", "c", "d", "e", "f", "g", "h", "i", "j", "k", "l", "m",
    "n", "o", "p", "q", "r", "s", "t", "u", "v", "w", "x", "y", "z">>

\* str.lower()
Lower_same(s) == s
Lower(s) ==
  [i \in DOMAIN s |->
     IF \E j \in DOMAIN UpperCase : UpperCase[j] = s[i]
     THEN LowerCase[CHOOSE j \in DOMAIN UpperCase : UpperCase[j] = s[i]]
     ELSE s[i]]

StrMemory == <<"m", "e", "m", "o", "r", "y">>
StrMem == <<"m", "e", "m">>
StrDatabase == <<"d", "a", "t", "a", "b", "a", "s", "e">>
StrDb == <<"d", "b">>
StrPostgres == <<"p", "o", "s", "t", "g", "r", "e", "s">>
StrPostgresql == <<"p", "o", "s", "t", "g", "r", "e", "s", "q", "l">>
StrRedis == <<"r", "e", "d", "i", "s">>
StrCache == <<"c", "a", "c", "h", "e">>

\* The backend names tried: every name the code spells out, some of them in
\* other cases, and names it does not know.
RepositoryTypes ==
  { StrMemory, StrMem, StrDatabase, StrDb, StrPostgres, StrPostgresql,
    StrRedis, StrCache,
    <<"M", "E", "M">>, <<"M", "e", "m", "o", "r", "y">>, <<"D", "B">>,
    <<"R", "e", "d", "i", "s">>,
    <<"b", "o", "g", "u", "s">>, <<"B", "o", "g", "u", "s">>,
    <<" ", "m", "e", "m">>, <<>> }

\* RepositoryFactory.create_account_repository: a new in-memory store, or the
\* exception raised.
create_account_repository(repository_type) ==
  LET subject == Lower(repository_type)
  IN  CASE subject \in {StrMemory, StrMem} ->
             [kind |-> "InMemoryAccountRepository"]
        [] subject \in {StrDatabase, StrDb, StrPostgres, StrPostgresql} ->
             [kind |-> "NotImplementedError", backend |-> "Database"]
        [] subject \in {StrRedis, StrCache} ->
             [kind |-> "NotImplementedError", backend |-> "Redis"]
        [] OTHER ->
             [kind |-> "ValueError", unknown_type |-> subject,
              supported_types |-> <<StrMemory, StrDatabase, StrRedis>>]

\* Settings(repository_type=...).__post_init__: the settings object with the
\* backend name normalised, or the ValueError that aborts the start.
Settings(repository_type) ==
  LET subject == Lower(repository_type)
  IN  CASE subject \in {StrMemory, StrMem} ->
             [kind |-> "Settings", repository_type |-> StrMemory]
        [] subject \in {StrDatabase, StrDb, StrPostgres, StrPostgresql} ->
             [kind |-> "Settings", repository_type |-> StrDatabase]
        [] OTHER ->
             [kind |-> "ValueError", repository_type |-> repository_type]

\* The process starts: main.py builds settings = Settings() from the
\* REPOSITORY_TYPE environment variable.
Startup ==
  /\ factory.settings = None
  /\ \E name \in RepositoryTypes :
       factory' = [factory EXCEPT !.settings = Some(Settings(name)),
                                  !.op = "startup"]
  /\ UNCHANGED <<accounts, next_id, clock, last, create_log, pending, heap>>

\* A direct call of RepositoryFactory.create_account_repository(name).
CreateAccountRepository ==
  /\ \E name \in RepositoryTypes :
       factory' = [factory EXCEPT
                     !.resolved = Some([name |-> name,
                                        ret |-> create_account_repository(name)]),
                     !.op = "create_account_repository"]
  /\ UNCHANGED <<accounts, next_id, clock, last, create_log, pending, heap>>

NextSelector == Startup \/ CreateAccountRepository

SpecSelector == Init /\ [][NextSelector]_vars

\* ------------------------------------------------- the shared store instance
\* get_repository() returns _create_repository_instance(), which is wrapped
\* in functools.lru_cache(maxsize=1).  A call that finds the entry returns it
\* without running any Python code (BeginGet, cache set).  A call that does
\* not find it runs the wrapped function with no lock held, so other threads
\* run meanwhile (BeginGet, cache empty); when the function returns, the
\* wrapper stores the result unless an entry has appeared in the meantime,
\* and returns the result of its own call in either case (FinishGet).  An
\* exception leaves the cache as it was.
\*
\* An instance is a store of its own; of its state the id counter and the
\* ids created are kept.  A caller's "held" is what its last call returned,
\* with the number of resets that had happened when it returned.

\* InMemoryAccountRepository.__init__
NewInstance == [ids |-> <<>>, next_id |-> 1]

IsInstance(h) == h # None /\ h[1].ret.kind = "InMemoryAccountRepository"

Missing == {t \in Callers : factory.call[t] = "miss"}

\* lru_cache: the wrapper stores a result only if the key is still absent.
CachePut(cache, ref) == IF cache = None THEN Some(ref) ELSE cache

BeginGet(t) ==
  /\ factory.settings # None
  /\ factory.settings[1].kind = "Settings"
  /\ factory.call[t] = "idle"
  /\ IF factory.cache # None
     THEN factory' = [factory EXCEPT
                        !.held[t] = Some([ret |-> [kind |-> "InMemoryAccountRepository",
                                                   ref |-> factory.cache[1]],
                                          epoch |-> factory.resets]),
                        !.op = "hit"]
     ELSE /\ Len(factory.instances) + Cardinality(Missing) < MaxInstances
          /\ factory' = [factory EXCEPT !.call[t] = "miss", !.op = "miss"]
  /\ UNCHANGED <<accounts, next_id, clock, last, create_log, pending, heap>>

FinishGet(t) ==
  /\ factory.call[t] = "miss"
  /\ LET made == create_account_repository(factory.settings[1].repository_type)
         ref == Len(factory.instances) + 1
     IN  IF made.kind = "InMemoryAccountRepository"
         THEN factory' = [factory EXCEPT
                            !.instances = Append(@, NewInstance),
                            !.cache = CachePut(@, ref),
                            !.call[t] = "idle",
                            !.held[t] = Some([ret |-> [kind |-> made.kind, ref |-> ref],
                                              epoch |-> factory.resets]),
                            !.op = "built"]
         ELSE factory' = [factory EXCEPT
                            !.call[t] = "idle",
                            !.held[t] = Some([ret |-> made, epoch |-> factory.resets]),
                            !.op = "raised"]
  /\ UNCHANGED <<accounts, next_id, clock, last, create_log, pending, heap>>

\* clear_repository_cache: _create_repository_instance.cache_clear()
ClearCache_keep ==
  /\ factory.resets < MaxResets
  /\ factory' = [factory EXCEPT !.resets = @ + 1, !.op = "clear"]
  /\ UNCHANGED <<accounts, next_id, clock, last, create_log, pending, heap>>
ClearCache ==
  /\ factory.resets < MaxResets
  /\ factory' = [factory EXCEPT !.cache = None, !.resets = @ + 1, !.op = "clear"]
  /\ UNCHANGED <<accounts, next_id, clock, last, create_log, pending, heap>>

\* A request handler creates a record through the instance its
\* get_repository call returned: the counter advances and the id is stored.
Write(t) ==
  /\ factory.call[t] = "idle"
  /\ IsInstance(factory.held[t])
  /\ LET ref == factory.held[t][1].ret.ref
         repo == factory.instances[ref]
     IN  /\ repo.next_id <= MaxId
         /\ factory' = [factory EXCEPT
                          !.instances[ref] = [ids |-> Append(repo.ids, repo.next_id),
                                              next_id |-> repo.next_id + 1],
                          !.op = "write"]
  /\ UNCHANGED <<accounts, next_id, clock, last, create_log, pending, heap>>

NextFactory ==
  \/ Startup
  \/ \E t \in Callers : BeginGet(t)
  \/ \E t \in Callers : FinishGet(t)
  \/ ClearCache
  \/ \E t \in Callers : Write(t)

SpecFactory == Init /\ [][NextFactory]_vars

\* ----------------------------------------------------------- HTTP endpoints
\* src/routers/accounts.py.  A handler is given the outcome of its store
\* call; it returns a value or raises.  An exception the store raises is
\* pydantic's ValidationError (AccountResponse(**data) of a stored record).
HTTPException(status_code) ==
  [kind |-> "raise", exc |-> "HTTPException", status_code |-> status_code]
Returned(v) == [kind |-> "return", val |-> v]
Raised(exc) == [kind |-> "raise", exc |-> exc]

raise_not_found == HTTPException(404)

\* return await repository.create(account)
create_account(ret) ==
  IF ret.kind = "raise" THEN Raised("ValidationError") ELSE Returned(ret)

\* return await repository.get_all(active_only=active_only)
list_accounts(ret) ==
  IF ret.kind = "raise" THEN Raised("ValidationError") ELSE Returned(ret)

\* if not (account := await repository.get_by_id(account_id)): raise_not_found
get_account(ret) ==
  IF ret.kind = "raise" THEN Raised("ValidationError")
  ELSE IF ret.kind = "none" THEN raise_not_found
  ELSE Returned(ret)

update_account(ret) ==
  IF ret.kind = "raise" THEN Raised("ValidationError")
  ELSE IF ret.kind = "none" THEN raise_not_found
  ELSE Returned(ret)

partial_update_account(ret) ==
  IF ret.kind = "raise" THEN Raised("ValidationError")
  ELSE IF ret.kind = "none" THEN raise_not_found
  ELSE Returned(ret)

\* if not await repository.delete(account_id): raise_not_found
delete_account(ret) ==
  IF ret.kind = "raise" THEN Raised("ValidationError")
  ELSE IF ~ret.val THEN raise_not_found
  ELSE Returned(RetNone)

\* The decorator: an HTTPException passes through, a ValidationError becomes
\* 422, another ValueError 400, anything else 500.
handle_exceptions_all(out) ==
  IF out.kind = "return" THEN out
  ELSE CASE out.exc = "ValidationError" -> HTTPException(422)
         [] out.exc = "ValueError" -> HTTPException(400)
         [] OTHER -> HTTPException(500)
handle_exceptions(out) ==
  IF out.kind = "return" THEN out
  ELSE IF out.exc = "HTTPException" THEN out
  ELSE CASE out.exc = "ValidationError" -> HTTPException(422)
         [] out.exc = "ValueError" -> HTTPException(400)
         [] OTHER -> HTTPException(500)

\* The status FastAPI answers with: the status_code of the route when the
\* handler returns (200 when the route names none; a returned
\* AccountResponse is an instance of the response_model and is not validated
\* again), the status_code of the HTTPException when it raises.
StatusCode(route_status, out) ==
  IF out.kind = "return" THEN route_status ELSE out.status_code

\* The status of the request that made store call op with outcome ret.
Answer(op, ret) ==
  CASE op = "create" -> StatusCode(201, handle_exceptions(create_account(ret)))
    [] op = "get_all" -> StatusCode(200, handle_exceptions(list_accounts(ret)))
    [] op = "get_by_id" -> StatusCode(200, handle_exceptions(get_account(ret)))
    [] op = "update" -> StatusCode(200, handle_exceptions(update_account(ret)))
    [] op = "partial_update" ->
         StatusCode(200, handle_exceptions(partial_update_account(ret)))
    [] op = "delete" -> StatusCode(204, handle_exceptions(delete_account(ret)))

\* ---------------------------------------------------------- health endpoint
\* src/routers/health.py.  sys.version_info of an interpreter that runs the
\* match statements of this code is 3.10 or later.
PythonVersions == {<<3, 10>>, <<3, 11>>, <<3, 12>>, <<3, 13>>}

get_system_status(version_info, repository_type) ==
  LET version_check ==
        IF version_info[1] = 3 /\ version_info[2] = 12 THEN "python_ok"
        ELSE IF version_info[1] = 3 /\ version_info[2] >= 10
             THEN "python_compatible"
             ELSE "python_outdated"
      env_check ==
        IF Lower(repository_type) \in {StrMemory, StrDatabase}
        THEN "env_ok" ELSE "env_invalid"
  IN  IF version_check \in {"python_ok", "python_compatible"} /\ env_check = "env_ok"
      THEN "healthy" ELSE "unhealthy"

\* GET /health, given what Depends(get_repository) produced and the outcome
\* of repository.get_all(active_only=True).  When the dependency raises, the
\* handler is not run and the exception leaves the route (no decorator).
health_check(version_info, repository_type, dep, probe) ==
  IF dep.kind # "InMemoryAccountRepository"
  THEN Raised(dep.kind)
  ELSE LET status == get_system_status(version_info, repository_type)
       IN  Returned([status |-> IF probe.kind = "raise" THEN "unhealthy" ELSE status,
                     service |-> "accounts-api", version |-> "1.0.0"])

\* ================================================================== claims
MutableFields == {"name", "description", "balance", "active"}

\* C1: on a fresh store the k-th create returns id k: the ids returned are
\* 1..N in call order, whatever other calls (delete included) come between.
C1_IdsAreSequential ==
  /\ \A k \in 1..Len(create_log) : create_log[k] = k
  /\ (last.op = "create") =>
       (last.ret.kind = "view" /\ last.ret.val.id = Len(create_log))

\* a create returned id 2 after record 1 had been soft-deleted
C1_Witness ==
  /\ last.op = "create"
  /\ last.ret.kind = "view"
  /\ last.ret.val.id = 2
  /\ Lookup(accounts, 1).active = Some(FALSE)
  /\ Lookup(accounts, 1).updated_at > Lookup(accounts, 1).created_at

\* C2: with several create calls in flight at once, every create that runs
\* gets an id no earlier create got, adds one record and leaves every record
\* already stored as it was.
C2_CreateIsAtomic ==
  [][(create_log' # create_log) =>
       /\ \A i, j \in DOMAIN create_log' :
            (i # j) => (create_log'[i] # create_log'[j])
       /\ Len(accounts') = Len(accounts) + 1
       /\ \A k \in Keys(accounts) :
            HasKey(accounts', k) /\ Lookup(accounts', k) = Lookup(accounts, k)
       /\ last'.ret.kind = "view"
       /\ Lookup(accounts', last'.ret.val.id).active = last'.arg.active]_vars

\* a create has run while another create, scheduled before it ran, is still
\* in flight
C2_Witness ==
  /\ last.op = "create"
  /\ last.ret.kind = "view"
  /\ \E c \in pending : c.op = "create" /\ c.seen <= last.ret.val.id

\* C3: get_by_id returns a view exactly when the record is stored and
\* active, and None otherwise.
C3_GetByIdIffVisible ==
  (last.op = "get_by_id") =>
    (IF Visible(accounts, last.id)
     THEN last.ret.kind = "view"
     ELSE last.ret.kind = "none")

\* C4: right after delete(id) returned True, get_by_id(id) returns None,
\* exists(id) returns False and get_all(active_only=False) lists the record
\* with active = False.
C4_DeleteHidesAndKeeps ==
  (last.op = "delete" /\ last.ret.val) =>
    /\ get_by_id_result(accounts, last.id).kind = "none"
    /\ exists_result(accounts, last.id).val = FALSE
    /\ LET r == get_all_result(accounts, FALSE)
       IN  /\ r.kind = "list"
           /\ \E i \in DOMAIN r.val :
                r.val[i].id = last.id /\ r.val[i].active = Some(FALSE)

\* C5: a record whose active flag is False keeps it False in every step;
\* update and partial_update on it return None and leave it unchanged.
C5_NoResurrection ==
  [][/\ (accounts' # accounts) =>
          \A i \in DOMAIN accounts :
            (accounts[i].data.active = Some(FALSE)) =>
              /\ i \in DOMAIN accounts'
              /\ accounts'[i].key = accounts[i].key
              /\ accounts'[i].data.active = Some(FALSE)
     /\ (/\ last'.op \in {"update", "partial_update"}
         /\ HasKey(accounts, last'.id)
         /\ Lookup(accounts, last'.id).active = Some(FALSE)) =>
          /\ last'.ret.kind = "none"
          /\ HasKey(accounts', last'.id)
          /\ Lookup(accounts', last'.id) = Lookup(accounts, last'.id)]_vars

\* a patch with active = True was refused on a record made inactive after
\* its creation
C5_Witness ==
  /\ last.op = "partial_update"
  /\ "active" \in last.arg.set
  /\ last.arg.active = Some(TRUE)
  /\ last.ret.kind = "none"
  /\ HasKey(accounts, last.id)
  /\ Lookup(accounts, last.id).active = Some(FALSE)
  /\ Lookup(accounts, last.id).updated_at > Lookup(accounts, last.id).created_at

\* C6 as stated: update and partial_update that succeed on an active record
\* leave it active, and only delete makes an active record inactive.
C6_OnlyDeleteDeactivates ==
  [][\A k \in Keys(accounts) :
       Truthy(Lookup(accounts, k).active) =>
         /\ HasKey(accounts', k)
         /\ (last'.op \in {"update", "partial_update"} /\ last'.id = k
               /\ last'.ret.kind = "view") =>
              Truthy(Lookup(accounts', k).active)
         /\ (~Truthy(Lookup(accounts', k).active)) =>
              (last'.op = "delete" /\ last'.id = k)]_vars

\* C6 amended: an active record stops being active only by delete, by update
\* with active = False, or by partial_update with active set to False or
\* None; an update or partial_update that returns a view and whose input
\* does not set active to False leaves it active.
C6_DeactivationPaths ==
  [][\A k \in Keys(accounts) :
       Truthy(Lookup(accounts, k).active) =>
         /\ HasKey(accounts', k)
         /\ (~Truthy(Lookup(accounts', k).active)) =>
              /\ last'.id = k
              /\ \/ last'.op = "delete"
                 \/ /\ last'.op = "update"
                    /\ last'.arg.active = Some(FALSE)
                 \/ /\ last'.op = "partial_update"
                    /\ "active" \in last'.arg.set
                    /\ last'.arg.active \in {Some(FALSE), None}
         /\ (/\ last'.id = k
             /\ last'.ret.kind = "view"
             /\ \/ /\ last'.op = "update"
                   /\ last'.arg.active = Some(TRUE)
                \/ /\ last'.op = "partial_update"
                   /\ \/ "active" \notin last'.arg.set
                      \/ last'.arg.active = Some(TRUE)) =>
              Truthy(Lookup(accounts', k).active)]_vars

\* an update with active = False has made an active record inactive
C6_Witness ==
  /\ last.op = "update"
  /\ last.ret.kind = "view"
  /\ last.arg.active = Some(FALSE)
  /\ Lookup(accounts, last.id).active = Some(FALSE)

\* C7: update on an active record returns a view and stores a record whose
\* name, description, balance and active are the replacement's, whose id and
\* created_at are those before the call, and whose updated_at is the time
\* read by the call.
C7_UpdateReplaces ==
  [][(last'.op = "update" /\ Visible(accounts, last'.id)) =>
       LET old == Lookup(accounts, last'.id)
           new == Lookup(accounts', last'.id)
           a == last'.arg
       IN  /\ last'.ret.kind = "view"
           /\ \A f \in MutableFields :
                new[f] = a[f] /\ last'.ret.val[f] = a[f]
           /\ new.id = old.id
           /\ last'.ret.val.id = old.id
           /\ new.created_at = old.created_at
           /\ last'.ret.val.created_at = old.created_at
           /\ new.updated_at = clock'
           /\ last'.ret.val.updated_at = clock']_vars

\* an update has replaced a patched name and set active to False at a later
\* clock reading
C7_Witness ==
  /\ last.op = "update"
  /\ last.ret.kind = "view"
  /\ last.ret.val.active = Some(FALSE)
  /\ last.ret.val.description = Some("d")
  /\ last.ret.val.updated_at > last.ret.val.created_at

\* C8: partial_update on an active record stores, for each of name,
\* description, balance and active, the patch's value when the patch sets the
\* field and the stored value otherwise; id and created_at are kept.
C8_PartialUpdateOverwritesSetFields ==
  [][(last'.op = "partial_update" /\ Visible(accounts, last'.id)) =>
       LET old == Lookup(accounts, last'.id)
           new == Lookup(accounts', last'.id)
           p == last'.arg
       IN  /\ \A f \in MutableFields :
                new[f] = IF f \in p.set THEN p[f] ELSE old[f]
           /\ new.id = old.id
           /\ new.created_at = old.created_at
           /\ DOMAIN new = DOMAIN old]_vars

\* a patch that sets only the name has run on a record with a description
\* and a balance of 100, which it kept
C8_Witness ==
  /\ last.op = "partial_update"
  /\ last.ret.kind = "view"
  /\ last.arg.set = {"name"}
  /\ last.ret.val.name = Some(<<"B">>)
  /\ last.ret.val.description = Some("d")
  /\ last.ret.val.balance = Some(100)

\* C9: partial_update with an empty patch on an active record returns a
\* view, leaves id, name, description, balance, active and created_at as
\* they were, and makes updated_at strictly greater.
C9_EmptyPatchRefreshes ==
  [][(last'.op = "partial_update" /\ last'.arg.set = {}
        /\ Visible(accounts, last'.id)) =>
       LET old == Lookup(accounts, last'.id)
           new == Lookup(accounts', last'.id)
       IN  /\ last'.ret.kind = "view"
           /\ \A f \in MutableFields \cup {"id", "created_at"} :
                new[f] = old[f]
           /\ new.updated_at > old.updated_at]_vars

\* C10: on an id that was never created update and partial_update return
\* None and delete returns False; none of them raises.
C10_UnknownIdNotFound ==
  /\ (last.op \in {"update", "partial_update"} /\ ~HasKey(accounts, last.id))
       => (last.ret.kind = "none")
  /\ (last.op = "delete" /\ ~HasKey(accounts, last.id))
       => (last.ret.kind = "bool" /\ last.ret.val = FALSE)

\* delete was called with an id never created, on a store that holds records
C10_Witness ==
  /\ last.op = "delete"
  /\ ~HasKey(accounts, last.id)
  /\ accounts # <<>>

\* C11: no call of the store raises: every outcome is a view, a list, a
\* boolean or None, for every input the caller-side schemas accept and for
\* every read issued afterwards.
C11_NoOperationRaises ==
  /\ last.ret.kind # "raise"
  /\ \A i \in RecordIds : get_by_id_result(accounts, i).kind # "raise"
  /\ \A b \in BOOLEAN : get_all_result(accounts, b).kind # "raise"

\* C12: every stored record has a name that is a string and is not empty
\* after trimming, a balance that is a number >= 0, and an active flag that
\* is a boolean.
C12_StoredRecordsAreValid ==
  \A i \in DOMAIN accounts :
    LET data == accounts[i].data
    IN  /\ data.name # None
        /\ Strip(data.name[1]) # <<>>
        /\ data.balance # None
        /\ data.balance[1] >= 0
        /\ data.active \in {Some(TRUE), Some(FALSE)}

\* C13: delete(id) returns True exactly when a create has returned that id,
\* whatever the record's active flag; it leaves the record with active =
\* False and with updated_at set to the time read by the call, which is never
\* earlier than the value before; a delete that follows a successful delete
\* of the same id returns True again and the record stays inactive.
C13_DeleteIsIdempotent ==
  [][(last'.op = "delete") =>
       LET k == last'.id
           created == \E i \in DOMAIN create_log : create_log[i] = k
       IN  /\ last'.ret = RetBool(created)
           /\ created =>
                /\ HasKey(accounts', k)
                /\ Lookup(accounts', k).active = Some(FALSE)
                /\ Lookup(accounts', k).updated_at = clock'
                /\ Lookup(accounts', k).updated_at
                     >= Lookup(accounts, k).updated_at
                /\ Lookup(accounts', k).created_at
                     = Lookup(accounts, k).created_at
           /\ (last.op = "delete" /\ last.id = k /\ last.ret.val) =>
                /\ last'.ret.val
                /\ Lookup(accounts, k).active = Some(FALSE)
                /\ Lookup(accounts', k).active = Some(FALSE)]_vars

\* delete has returned True on the inactive record 1 at a clock reading
\* later than its creation, with a second record stored
C13_Witness ==
  /\ last.op = "delete"
  /\ last.id = 1
  /\ last.ret.val
  /\ Len(accounts) = 2
  /\ Lookup(accounts, 1).active = Some(FALSE)
  /\ Lookup(accounts, 1).updated_at > Lookup(accounts, 1).created_at
  /\ Lookup(accounts, 1).updated_at = clock

\* C14: in every state exists(id) is True exactly when a record with that id
\* is stored and its active flag is True, and False for an id never created
\* and for a record that is not active.
C14_ExistsIffStoredAndActive ==
  /\ \A i \in Ids :
       exists_result(accounts, i) =
         RetBool(/\ \E j \in DOMAIN accounts : accounts[j].key = i
                 /\ \A j \in DOMAIN accounts :
                      (accounts[j].key = i) =>
                        (accounts[j].data.active = Some(TRUE)))
  /\ (last.op = "exists") => (last.ret = exists_result(accounts, last.id))

\* exists has returned False for a record that is stored and was soft-deleted
\* after its creation
C14_Witness ==
  /\ last.op = "exists"
  /\ last.ret = RetBool(FALSE)
  /\ HasKey(accounts, last.id)
  /\ Lookup(accounts, last.id).active = Some(FALSE)
  /\ Lookup(accounts, last.id).updated_at > Lookup(accounts, last.id).created_at

\* C15: in every state get_all returns, for active_only true and false, a
\* list whose records are in creation order (ascending id); update,
\* partial_update and delete move no record in it.
C15_GetAllInCreationOrder ==
  \A b \in BOOLEAN :
    LET r == get_all_result(accounts, b)
    IN  /\ r.kind = "list"
        /\ \A i, j \in DOMAIN r.val : (i < j) => (r.val[i].id < r.val[j].id)

\* C16: get_all(active_only=True) returns exactly the stored records whose
\* active flag is True, get_all(active_only=False) returns every stored
\* record, each once, and on an empty store both return the empty list.
C16_GetAllSelectsByActive ==
  LET act == get_all_result(accounts, TRUE)
      all == get_all_result(accounts, FALSE)
  IN  /\ act.kind = "list"
      /\ all.kind = "list"
      /\ {act.val[i].id : i \in DOMAIN act.val}
           = {k \in Keys(accounts) : Lookup(accounts, k).active = Some(TRUE)}
      /\ \A i, j \in DOMAIN act.val :
           (i # j) => (act.val[i].id # act.val[j].id)
      /\ \A i \in DOMAIN act.val :
           act.val[i] = ResponseView(Lookup(accounts, act.val[i].id))
      /\ Len(all.val) = Len(accounts)
      /\ \A i \in DOMAIN all.val : all.val[i] = ResponseView(accounts[i].data)
      /\ (accounts = <<>>) => (act.val = <<>> /\ all.val = <<>>)

\* C17 as stated: right after create(x), for every input x the schema
\* accepts, get_by_id of the returned id returns a record with x's name,
\* description, balance and active, the assigned id, and created_at equal to
\* updated_at.
C17_CreateThenGet ==
  (last.op = "create") =>
    LET x == last.arg
        r == get_by_id_result(accounts, last.ret.val.id)
    IN  /\ r.kind = "view"
        /\ \A f \in MutableFields : r.val[f] = x[f]
        /\ r.val.id = last.ret.val.id
        /\ r.val.id = create_log[Len(create_log)]
        /\ r.val.created_at = r.val.updated_at

\* C17 amended: right after create(x), get_by_id of the returned id returns
\* such a record when x.active is True, and None when x.active is False.
C17_CreateThenGetActive ==
  (last.op = "create") =>
    LET x == last.arg
        r == get_by_id_result(accounts, last.ret.val.id)
    IN  IF x.active = Some(TRUE)
        THEN /\ r.kind = "view"
             /\ \A f \in MutableFields : r.val[f] = x[f]
             /\ r.val.id = last.ret.val.id
             /\ r.val.id = create_log[Len(create_log)]
             /\ r.val.created_at = r.val.updated_at
        ELSE r.kind = "none"

\* a create with a description, a balance of 100 and active = True has
\* returned at clock reading 1, and get_by_id finds the record
C17_Witness ==
  /\ last.op = "create"
  /\ last.arg.active = Some(TRUE)
  /\ last.arg.description = Some("d")
  /\ last.arg.balance = Some(100)
  /\ clock = 1
  /\ get_by_id_result(accounts, last.ret.val.id).kind = "view"

C20_MutationsAreSerialized ==
  [][\A c \in pending \ pending' :
       LET old == Get(accounts, c.id)
           new == Get(accounts', c.id)
           live == old # None /\ old[1].active = Some(TRUE)
           kept == {"id", "created_at"}
       IN  /\ last'.op = c.op /\ last'.id = c.id
           /\ Len(accounts') = Len(accounts)
           /\ (last'.ret.kind = "view") =>
                (last'.ret.val = ResponseView(new[1]))
           /\ (c.op \in {"update", "partial_update"} /\ ~live) =>
                (last'.ret = RetNone /\ accounts' = accounts)
           /\ (c.op = "update" /\ live) =>
                /\ last'.ret.kind = "view"
                /\ \A f \in MutableFields : new[1][f] = c.arg[f]
                /\ \A f \in kept : new[1][f] = old[1][f]
                /\ new[1].updated_at = clock'
           /\ (c.op = "partial_update" /\ live) =>
                /\ last'.ret.kind = "view"
                /\ \A f \in MutableFields :
                     new[1][f] = IF f \in c.arg.set THEN c.arg[f] ELSE old[1][f]
                /\ \A f \in kept : new[1][f] = old[1][f]
                /\ new[1].updated_at = clock'
           /\ (c.op = "delete") =>
                /\ last'.ret = RetBool(old # None)
                /\ (old # None) =>
                     /\ \A f \in MutableFields \ {"active"} :
                          new[1][f] = old[1][f]
                     /\ \A f \in kept : new[1][f] = old[1][f]
                     /\ new[1].active = Some(FALSE)
                     /\ new[1].updated_at = clock'
                /\ (old = None) => (accounts' = accounts)]_vars

\* a partial_update of the balance has run on a record whose name another
\* call's partial_update had changed, while the update of another task is
\* still in flight
C20_Witness ==
  /\ last.op = "partial_update"
  /\ last.ret.kind = "view"
  /\ last.arg.set = {"balance"}
  /\ last.ret.val.name = Some(<<"B">>)
  /\ last.ret.val.balance = Some(0)
  /\ \E c \in pending : c.op = "update"

\* C19: a call of the store changes no object a caller holds (the responses
\* returned earlier and the models passed in earlier stay as they were),
\* an assignment a caller makes to an object it holds changes no stored
\* record, and the stored dicts always hold the stored values.
C19_ReturnedValuesAreSnapshots ==
  [][/\ (heap'.by = "store") =>
          \A a \in heap.refs : heap'.objs[a] = heap.objs[a]
     /\ (heap'.by = "caller") =>
          /\ accounts' = accounts
          /\ heap'.dicts = heap.dicts
          /\ \A i \in DOMAIN heap.dicts :
               heap'.objs[heap.dicts[i]] = heap.objs[heap.dicts[i]]
     /\ \A i \in DOMAIN heap'.dicts :
          heap'.objs[heap'.dicts[i]] = accounts'[i].data
     /\ Len(heap'.dicts) = Len(accounts')]_vars

\* delete has run after a response with active = True was returned and is
\* still held, and a caller has changed the balance of a model it passed in,
\* which the stored record does not have
C19_Witness ==
  /\ last.op = "delete"
  /\ last.ret.val
  /\ Lookup(accounts, last.id).active = Some(FALSE)
  /\ Lookup(accounts, last.id).balance # Some(50)
  /\ \E a \in heap.refs :
       /\ "id" \in DOMAIN heap.objs[a]
       /\ heap.objs[a].active = Some(TRUE)
  /\ \E a \in heap.refs :
       /\ "id" \notin DOMAIN heap.objs[a]
       /\ heap.objs[a].balance = Some(50)

\* C24: create_account_repository maps a name, whatever its case, to an
\* in-memory store for memory and mem, to NotImplementedError for database,
\* db, postgres, postgresql, redis and cache, and to ValueError for every
\* other string.
C24_SelectorMapsNames ==
  (factory.resolved # None) =>
    LET name == factory.resolved[1].name
        ret == factory.resolved[1].ret
        folded == {n \in {StrMemory, StrMem, StrDatabase, StrDb, StrPostgres,
                          StrPostgresql, StrRedis, StrCache} :
                     /\ Len(n) = Len(name)
                     /\ \A i \in DOMAIN n :
                          \/ name[i] = n[i]
                          \/ \E j \in DOMAIN UpperCase :
                               name[i] = UpperCase[j] /\ n[i] = LowerCase[j]}
    IN  /\ (folded \cap {StrMemory, StrMem} # {}) <=>
             (ret.kind = "InMemoryAccountRepository")
        /\ (folded \ {StrMemory, StrMem} # {}) <=>
             (ret.kind = "NotImplementedError")
        /\ (folded = {}) <=> (ret.kind = "ValueError")
        /\ ret.kind \in
             {"InMemoryAccountRepository", "NotImplementedError", "ValueError"}

\* create_account_repository was called with "MEM" and returned a store
C24_Witness ==
  /\ factory.resolved # None
  /\ factory.resolved[1].name = <<"M", "E", "M">>
  /\ factory.resolved[1].ret.kind = "InMemoryAccountRepository"

\* C25: for a name that is not recognized the ValueError names the value as
\* it was given and lists every name the selector accepts.
C25_UnknownBackendError ==
  (factory.resolved # None /\ factory.resolved[1].ret.kind = "ValueError") =>
    LET name == factory.resolved[1].name
        ret == factory.resolved[1].ret
    IN  /\ ret.unknown_type = name
        /\ {ret.supported_types[i] : i \in DOMAIN ret.supported_types}
             = {n \in RepositoryTypes :
                  /\ n = Lower(n)
                  /\ create_account_repository(n).kind # "ValueError"}

\* C21: between two resets every get_repository call returns the same store
\* instance: two callers whose calls returned after the same number of
\* resets hold the same instance (so what one writes the other sees), and
\* no instance is built before a call has been made.
C21_SameInstanceBetweenResets ==
  /\ (\A t \in Callers : factory.held[t] = None /\ factory.call[t] = "idle")
       => factory.instances = <<>>
  /\ \A t, u \in Callers :
       (/\ IsInstance(factory.held[t])
        /\ IsInstance(factory.held[u])
        /\ factory.held[t][1].epoch = factory.held[u][1].epoch)
         => factory.held[t][1].ret.ref = factory.held[u][1].ret.ref

\* C22: clear_repository_cache empties the cache and touches no instance;
\* the call that returns first after a reset (it returns while the cache is
\* still empty) builds a new instance, distinct from every earlier one, with
\* no records and the id counter at 1, and the earlier instances keep their
\* records.
C22_ClearThenFresh ==
  [][ /\ factory'.op = "clear" /\ factory'.resets # factory.resets
        => /\ factory'.cache = None
           /\ factory'.instances = factory.instances
           /\ factory'.held = factory.held
      /\ \A t \in Callers :
           (/\ factory.resets >= 1
            /\ factory.cache = None
            /\ factory'.held[t] # factory.held[t]
            /\ IsInstance(factory'.held[t]))
             => LET ref == factory'.held[t][1].ret.ref
                IN  /\ ref \notin DOMAIN factory.instances
                    /\ ref \in DOMAIN factory'.instances
                    /\ factory'.instances[ref] = [ids |-> <<>>, next_id |-> 1]
                    /\ factory'.cache = Some(ref)
                    /\ \A i \in DOMAIN factory.instances :
                         factory'.instances[i] = factory.instances[i]
    ]_vars

\* C22 witness: after a reset a caller holds the instance cached now, which
\* has no records, while the instance built before the reset still has one.
C22_Witness ==
  /\ factory.resets >= 1
  /\ factory.cache # None
  /\ \E t \in Callers :
       /\ IsInstance(factory.held[t])
       /\ factory.held[t][1].epoch >= 1
       /\ factory.held[t][1].ret.ref = factory.cache[1]
       /\ factory.instances[factory.cache[1]] = [ids |-> <<>>, next_id |-> 1]
       /\ \E i \in DOMAIN factory.instances :
            /\ i < factory.cache[1]
            /\ factory.instances[i].ids # <<>>

\* C23: when several callers make the first get_repository calls at the
\* same time, one store is built and every caller gets it: before any reset
\* there is at most one instance and no two callers hold different ones.
C23_BuiltOnceUnderConcurrency ==
  factory.resets = 0
    => /\ Len(factory.instances) <= 1
       /\ \A t, u \in Callers :
            (IsInstance(factory.held[t]) /\ IsInstance(factory.held[u]))
              => factory.held[t] = factory.held[u]

\* C26: once the settings have been accepted at start-up, no get_repository
\* call made for a request raises the unimplemented-backend or the
\* unknown-backend error: every call returns a store.
C26_NoSelectorErrorAtRequestTime ==
  \A t \in Callers :
    factory.held[t] # None => IsInstance(factory.held[t])

\* C27: the status of a request follows the outcome of its store call: POST
\* answers 201 when create returns a view; GET by id, PUT and PATCH answer
\* 200 exactly when the store returns a view and 404 exactly when it returns
\* not found; DELETE answers 204 exactly when delete returns true and 404
\* exactly when it returns false.
C27_StatusMapping ==
  /\ (last.op = "create" /\ last.ret.kind = "view")
       => Answer(last.op, last.ret) = 201
  /\ last.op \in {"get_by_id", "update", "partial_update"}
       => /\ Answer(last.op, last.ret) = 200 <=> last.ret.kind = "view"
          /\ Answer(last.op, last.ret) = 404 <=> last.ret.kind = "none"
  /\ last.op = "delete"
       => /\ Answer(last.op, last.ret) = 204 <=> last.ret = RetBool(TRUE)
          /\ Answer(last.op, last.ret) = 404 <=> last.ret = RetBool(FALSE)

\* C27 witness: in a store that holds records, DELETE of an id that is not
\* stored was answered 404.
C27_Witness ==
  /\ last.op = "delete"
  /\ last.ret = RetBool(FALSE)
  /\ accounts # <<>>
  /\ ~HasKey(accounts, last.id)
  /\ Answer(last.op, last.ret) = 404

\* C28: under every configuration the start-up accepts and in every store
\* state, the health endpoint answers, and its answer is "unhealthy" exactly
\* when the get_all(active_only=true) probe raises or the configured backend
\* is one the selector cannot build.
C28_HealthAnswers ==
  \A version_info \in PythonVersions, name \in RepositoryTypes :
    Settings(name).kind = "Settings"
      => LET repository_type == Settings(name).repository_type
             dep == create_account_repository(repository_type)
             probe == get_all_result(accounts, TRUE)
             out == health_check(version_info, repository_type, dep, probe)
         IN  /\ out.kind = "return"
             /\ out.val.status = "unhealthy"
                  <=> (probe.kind = "raise" \/ dep.kind # "InMemoryAccountRepository")

\* C29: partial_update on a visible record tells a field left out of the
\* patch from a field given as null: a patch that gives description as null
\* stores no description, a patch that leaves description out keeps the
\* stored one.
C29_OmittedIsNotNull ==
  [][(last'.op = "partial_update" /\ Visible(accounts, last'.id)) =>
       LET old == Lookup(accounts, last'.id)
           new == Lookup(accounts', last'.id)
           p == last'.arg
       IN  /\ ("description" \in p.set /\ p.description = None)
                => new.description = None
           /\ "description" \notin p.set
                => new.description = old.description]_vars

\* C29 witness: a patch that gave description as null, and nothing that
\* fails validation, returned a view without description.
C29_Witness ==
  /\ last.op = "partial_update"
  /\ "description" \in last.arg.set
  /\ last.arg.description = None
  /\ last.ret.kind = "view"
  /\ last.ret.val.description = None
  /\ Lookup(accounts, last.id).description = None

\* C30: right after create with active = False, the record has taken the id
\* the counter held, create has returned it with active = False,
\* get_all(active_only=False) lists it and get_all(active_only=True) does
\* not.
C30_CreateInactive ==
  (last.op = "create" /\ last.arg.active = Some(FALSE)) =>
    /\ next_id = last.id + 1
    /\ Lookup(accounts, last.id).active = Some(FALSE)
    /\ last.ret.kind = "view"
    /\ last.ret.val.id = last.id
    /\ last.ret.val.active = Some(FALSE)
    /\ LET everything == get_all_result(accounts, FALSE)
           active_only == get_all_result(accounts, TRUE)
       IN  /\ everything.kind = "list"
           /\ \E i \in DOMAIN everything.val : everything.val[i].id = last.id
           /\ active_only.kind = "list"
           /\ \A i \in DOMAIN active_only.val : active_only.val[i].id # last.id

\* C31: in every state the stored ids are exactly 1..(next_id - 1) and each
\* record carries the id of its key; the counter has advanced by exactly one
\* for each create made so far and by nothing else; and every id a create
\* has ever returned is still stored.
C31_IdsDenseAndKept ==
  /\ Keys(accounts) = 1..(next_id - 1)
  /\ Len(accounts) = next_id - 1
  /\ \A i \in DOMAIN accounts : accounts[i].data.id = accounts[i].key
  /\ next_id = Len(create_log) + 1
  /\ \A k \in DOMAIN create_log : HasKey(accounts, create_log[k])

\* C31 witness: two records have been created, the first was then deleted,
\* and both are still stored.
C31_Witness ==
  /\ last.op = "delete"
  /\ last.ret = RetBool(TRUE)
  /\ last.id = 1
  /\ next_id = 3
  /\ Keys(accounts) = {1, 2}
  /\ ~Truthy(Lookup(accounts, 1).active)

\* C32: an update or partial_update call either returns a view of the record
\* as it is now stored, or (not found, or an exception) leaves the store as
\* it was; and a PUT or PATCH answered with a status of 400 or more leaves
\* the store as it was.
C32_AllOrNothing ==
  [][(/\ last'.op \in {"update", "partial_update"}
      /\ (last' # last \/ accounts' # accounts)) =>
       /\ IF last'.ret.kind = "view"
          THEN last'.ret.val = ResponseView(Lookup(accounts', last'.id))
          ELSE accounts' = accounts
       /\ Answer(last'.op, last'.ret) >= 400 => accounts' = accounts]_vars

\* C33: in every state and for every id, one condition (a record with the id
\* is stored and its active flag is True) decides all of: exists(id) is
\* True, get_by_id(id) returns a view, get_all(active_only=True) lists the
\* id, and an update or partial_update call on the id returns a view.
C33_VisibilityIsUniform ==
  [][\A i \in Ids :
       LET visible == HasKey(accounts, i) /\ Lookup(accounts, i).active = Some(TRUE)
           listed == get_all_result(accounts, TRUE)
       IN  /\ exists_result(accounts, i) = RetBool(visible)
           /\ get_by_id_result(accounts, i).kind = "view" <=> visible
           /\ listed.kind = "list"
           /\ (\E j \in DOMAIN listed.val : listed.val[j].id = i) <=> visible
           /\ (last'.op \in {"update", "partial_update"} /\ last'.id = i)
                => (last'.ret.kind = "view" <=> visible)]_vars

\* C34: a step of get_by_id, get_all, get_all_including_deleted or exists,
\* of update or partial_update returning None, or of delete returning False
\* leaves every stored record (updated_at included) and the id counter as
\* they were.
C34_ReadsAndRefusalsChangeNothing ==
  [][(\/ last'.op \in {"get_by_id", "get_all", "get_all_including_deleted",
                       "exists"}
      \/ (last'.op \in {"update", "partial_update"} /\ last'.ret = RetNone)
      \/ (last'.op = "delete" /\ last'.ret = RetBool(FALSE)))
       => (accounts' = accounts /\ next_id' = next_id)]_vars

\* C34 witness: partial_update returned None for a record that is stored
\* and inactive, and the record's updated_at is still older than the last
\* write to the store.
C34_Witness ==
  /\ last.op = "partial_update"
  /\ last.ret = RetNone
  /\ HasKey(accounts, last.id)
  /\ ~Truthy(Lookup(accounts, last.id).active)
  /\ Lookup(accounts, last.id).updated_at < clock

\* C35: a delete step on a stored record leaves the record with active False
\* and with the id, name, description, balance and created_at it had; every
\* other record and the id counter are as they were.
C35_DeleteTouchesOnlyActiveAndUpdatedAt ==
  [][(last'.op = "delete" /\ HasKey(accounts, last'.id)) =>
       LET old == Lookup(accounts, last'.id)
           new == Lookup(accounts', last'.id)
       IN  /\ Keys(accounts') = Keys(accounts)
           /\ new.active = Some(FALSE)
           /\ \A f \in {"id", "name", "description", "balance", "created_at"} :
                new[f] = old[f]
           /\ \A k \in Keys(accounts) \ {last'.id} :
                Lookup(accounts', k) = Lookup(accounts, k)
           /\ next_id' = next_id]_vars

\* C35 witness: the first of two stored records has been deleted some time
\* after its creation, and the second is still active.
C35_Witness ==
  /\ last.op = "delete"
  /\ last.ret = RetBool(TRUE)
  /\ last.id = 1
  /\ Lookup(accounts, 1).active = Some(FALSE)
  /\ Lookup(accounts, 1).updated_at > Lookup(accounts, 1).created_at
  /\ HasKey(accounts, 2)
  /\ Truthy(Lookup(accounts, 2).active)

\* C36: every update or partial_update step that returns a view and every
\* delete step that returns True leaves the record with an updated_at
\* strictly greater than the one it had, and so different from created_at.
C36_UpdatedAtStrictlyIncreases ==
  [][(\/ (last'.op \in {"update", "partial_update"} /\ last'.ret.kind = "view")
      \/ (last'.op = "delete" /\ last'.ret = RetBool(TRUE))) =>
       LET old == Lookup(accounts, last'.id)
           new == Lookup(accounts', last'.id)
       IN  /\ new.updated_at > old.updated_at
           /\ new.updated_at # new.created_at]_vars

\* C37: with calls of every operation scheduled by several tasks, a call
\* that runs is over in one step of the loop, and the store changes only in
\* such a step: the step takes exactly one call off the loop and leaves that
\* call's outcome, a create that took an id has stored its record, and no
\* state shows an id taken without its record.
C37_OperationsRunToCompletion ==
  [][/\ (accounts' # accounts \/ next_id' # next_id \/ last' # last) =>
          \E c \in pending :
            /\ pending' = pending \ {c}
            /\ last'.op = c.op
            /\ last'.ret.kind \in {"view", "none", "bool", "list", "raise"}
     /\ (pending' # pending /\ pending' \subseteq pending) =>
          Cardinality(pending \ pending') = 1
     /\ (next_id' # next_id) =>
          (HasKey(accounts', next_id) /\ ~HasKey(accounts, next_id))
     /\ Keys(accounts') = 1..(next_id' - 1)]_vars

\* C37 witness: a second create has run while another task's update of
\* record 1 is scheduled and waiting.
C37_Witness ==
  /\ last.op = "create"
  /\ last.ret.kind = "view"
  /\ last.id = 2
  /\ \E c \in pending : c.op = "update"

\* C38: a DELETE answered 204 leaves the record soft-deleted; from then on
\* the record stays soft-deleted, every GET, PUT and PATCH on its id is
\* answered 404 and every DELETE on its id is answered 204.
C38_DeletedIsGoneExceptForDelete ==
  [][/\ \A i \in DOMAIN accounts :
          (accounts[i].data.active = Some(FALSE)) =>
            /\ i \in DOMAIN accounts'
            /\ accounts'[i].key = accounts[i].key
            /\ accounts'[i].data.active = Some(FALSE)
     /\ IF last'.op = "delete"
        THEN /\ (Answer(last'.op, last'.ret) = 204) =>
                  /\ HasKey(accounts', last'.id)
                  /\ Lookup(accounts', last'.id).active = Some(FALSE)
             /\ (HasKey(accounts, last'.id)
                   /\ Lookup(accounts, last'.id).active = Some(FALSE))
                  => Answer(last'.op, last'.ret) = 204
        ELSE (/\ last'.op \in {"get_by_id", "update", "partial_update"}
              /\ HasKey(accounts, last'.id)
              /\ Lookup(accounts, last'.id).active = Some(FALSE))
               => Answer(last'.op, last'.ret) = 404]_vars

\* C38 witness: GET on a record that was soft-deleted some time after its
\* creation has been answered 404.
C38_Witness ==
  /\ last.op = "get_by_id"
  /\ HasKey(accounts, last.id)
  /\ Lookup(accounts, last.id).active = Some(FALSE)
  /\ Lookup(accounts, last.id).updated_at > Lookup(accounts, last.id).created_at
  /\ Answer(last.op, last.ret) = 404
====
